---- MODULE Spec2Model ----
(***************************************************************************)
(* Slack polls (src/app.py): the sqlite store of polls and votes, the      *)
(* admission of votes by cast_vote, the closing of polls, the cached       *)
(* summary, and the Streamlit script runs (vote page, dashboard) that call *)
(* them.  Every script run is a session; sessions of different browsers    *)
(* run concurrently and interleave at the granularity of one sqlite        *)
(* connection (one "with sqlite3.connect" block is one transaction).       *)
(*                                                                         *)
(* A run that votes makes three transactions: get_poll (reads polls), the  *)
(* duplicate-name SELECT (reads votes) and the INSERT.  A step of another  *)
(* session that falls between the first two either writes polls, and then  *)
(* gives the same result when it runs after the SELECT, or writes votes,   *)
(* and then gives the same result when it runs before get_poll.  The two   *)
(* reads are therefore one step of the model; the INSERT is a step of its  *)
(* own, and so is the UPDATE that follows a dashboard's list_polls.        *)
(*                                                                         *)
(* The columns created_at and ts hold int(time.time()); nothing reads ts,  *)
(* and created_at is read only by the ORDER BY of list_polls.  The tables  *)
(* are kept as sequences in insertion order and the model keeps no clock.  *)
(***************************************************************************)
EXTENDS Integers, Sequences, FiniteSets, TLC

VARIABLES
    polls,      \* table polls: sequence of rows, in insertion order
    votes,      \* table votes: sequence of rows, in insertion order
    pc,         \* per session: the transaction its run makes next
    cur,        \* per session: the poll id that transaction is given
    poll_data,  \* per session: the record the cast_vote call in progress was given
    vote_data,  \* per session: the payload of the cast_vote call in progress
    out,        \* the cast_vote call that returned last: the poll id, the
                \* record and the payload it was given, and what it returned
    shown       \* the results tabs the dashboard run rendered last

vars == <<polls, votes, pc, cur, poll_data, vote_data, out, shown>>

----------------------------------------------------------------------------
(* Bounds of the model *)

\* polls created in a behaviour
MaxPolls == 1

\* vote rows inserted in a behaviour
MaxVotes == 2

\* vote rows inserted in a behaviour of SeqSpec
SeqVotes == 1

\* votes stored for the poll of a behaviour of DisplaySpec
MaxBallots == 3

Sessions == {"s1", "s2"}

----------------------------------------------------------------------------
(* Python values *)

\* None, where a dict is expected
None == <<>>

\* SQL NULL in a TEXT column
NULL == "<NULL>"

\* dict.get(k): <<v>> when the key is present, <<>> (None) when it is not
DictGet(d, k) == IF k \in DOMAIN d THEN <<d[k]>> ELSE <<>>

\* json.dumps / json.loads: the stored column is text, not the value
json_dumps(v) == <<"json", v>>

json_loads(t) == t[2]

\* str.strip() on the strings the forms are given
strip(str) ==
    CASE str = " ann" -> "ann"
      [] str = " " -> ""
      [] OTHER -> str

\* int(str) of a query parameter: the integer, or <<>> where int() raises ValueError
int(str) ==
    CASE str = "0" -> <<0>>
      [] str = "1" -> <<1>>
      [] str = "2" -> <<2>>
      [] str = "3" -> <<3>>
      [] OTHER -> <<>>

\* str.lower() and str.replace(" ", "_"), character by character
lower_char(c) ==
    CASE c = "S" -> "s"
      [] c = "C" -> "c"
      [] c = "R" -> "r"
      [] c = "P" -> "p"
      [] c = "M" -> "m"
      [] OTHER -> c

RECURSIVE poll_type_slug(_)
poll_type_slug(chars) ==
    IF chars = <<>> THEN ""
    ELSE LET c == lower_char(Head(chars))
         IN (IF c = " " THEN "_" ELSE c) \o poll_type_slug(Tail(chars))

\* the three labels of st.radio("Poll Type", ...)
SingleChoiceLabel == <<"S","i","n","g","l","e"," ","C","h","o","i","c","e">>

RankedPreferenceLabel ==
    <<"R","a","n","k","e","d"," ","P","r","e","f","e","r","e","n","c","e">>

MatrixLabel == <<"M","a","t","r","i","x">>

PollTypeLabels == {SingleChoiceLabel, RankedPreferenceLabel, MatrixLabel}

----------------------------------------------------------------------------
(* Sequence helpers *)

Range(f) == {f[i] : i \in DOMAIN f}

RECURSIVE SumSeq(_)
SumSeq(seq) == IF seq = <<>> THEN 0 ELSE Head(seq) + SumSeq(Tail(seq))

----------------------------------------------------------------------------
(* Inputs *)

\* poll types a caller of create_poll passes directly
ApiPollTypes == {"single", "ranked", "matrix"}

Questions == {"Q"}

\* st.session_state.choices as typed: one option filled in, and both
FormChoices == {<<"A", " ">>, <<"A", "B">>}

\* st.session_state.matrix_items as typed: a blanked topic, and a filled one
FormItems == {<<" ">>, <<"X">>}

\* st.session_state.matrix_criteria as typed
FormCriteria == {<<[label |-> "c1", type |-> "Yes/No"]>>}

\* the "vote" query parameter of a single-choice link
VoteParams == {"0", "1", "2", "3", "x"}

\* st.text_input("Enter your name to vote") as typed
NameInputs == {"", "ann", " ann", "bob"}

\* the text the summarizer returns
Summaries == {"summary"}

----------------------------------------------------------------------------
(* Database helpers *)

\* the dict get_poll and list_polls build from a row of polls
poll_dict(row) ==
    [id |-> row.id, poll_type |-> row.poll_type, question |-> row.question,
     options |-> json_loads(row.options), closed |-> row.closed,
     summary |-> row.summary]

\* uuid.uuid4().hex[:10]: an id no stored poll has
new_poll_id == Len(polls) + 1

\* an INSERT that stores the poll as closed
create_poll_closed(pid, poll_type, question, options) ==
    Append(polls, [id |-> pid, poll_type |-> poll_type, question |-> question,
                   options |-> json_dumps(options), closed |-> 1,
                   summary |-> NULL])

\* the row create_poll inserts
create_poll(pid, poll_type, question, options) ==
    Append(polls, [id |-> pid, poll_type |-> poll_type, question |-> question,
                   options |-> json_dumps(options), closed |-> 0,
                   summary |-> NULL])

get_poll(poll_id) ==
    LET found == {i \in DOMAIN polls : polls[i].id = poll_id}
    IN IF found = {} THEN None
       ELSE poll_dict(polls[CHOOSE i \in found : TRUE])

\* an UPDATE that flips the flag: SET closed = 1 - closed
end_poll_toggling(poll_id) ==
    [i \in DOMAIN polls |->
        IF polls[i].id = poll_id
        THEN [polls[i] EXCEPT !.closed = 1 - polls[i].closed]
        ELSE polls[i]]

\* UPDATE polls SET closed = 1 WHERE id = ?
end_poll(poll_id) ==
    [i \in DOMAIN polls |->
        IF polls[i].id = poll_id THEN [polls[i] EXCEPT !.closed = 1] ELSE polls[i]]

\* an UPDATE that writes the text into the question column as well
update_summary_as_question(poll_id, summary) ==
    [i \in DOMAIN polls |->
        IF polls[i].id = poll_id
        THEN [polls[i] EXCEPT !.summary = summary, !.question = summary]
        ELSE polls[i]]

\* an UPDATE that stores the summary and reopens the poll
update_summary_reopening(poll_id, summary) ==
    [i \in DOMAIN polls |->
        IF polls[i].id = poll_id
        THEN [polls[i] EXCEPT !.summary = summary, !.closed = 0]
        ELSE polls[i]]

\* UPDATE polls SET summary = ? WHERE id = ?
update_summary(poll_id, summary) ==
    [i \in DOMAIN polls |->
        IF polls[i].id = poll_id THEN [polls[i] EXCEPT !.summary = summary]
        ELSE polls[i]]

\* SELECT vote_data FROM votes WHERE poll_id = ?, decoded, in insertion order
RECURSIVE votes_of(_, _)
votes_of(rows, poll_id) ==
    IF rows = <<>> THEN <<>>
    ELSE (IF Head(rows).poll_id = poll_id
          THEN <<json_loads(Head(rows).vote_data)>> ELSE <<>>)
         \o votes_of(Tail(rows), poll_id)

\* the scan of cast_vote comparing the rankings instead of the names
ranking_taken(poll_id, vd) ==
    \E v \in Range(votes_of(votes, poll_id)) :
        DictGet(v, "ranking") = DictGet(vd, "ranking")

\* the duplicate-name scan of cast_vote
name_taken(poll_id, vd) ==
    \E v \in Range(votes_of(votes, poll_id)) :
        DictGet(v, "name") = DictGet(vd, "name")

\* an INSERT OR REPLACE that overwrites the newest row
insert_vote_replacing(poll_id, vd) ==
    IF votes = <<>>
    THEN <<[id |-> 1, poll_id |-> poll_id, vote_data |-> json_dumps(vd)]>>
    ELSE [votes EXCEPT ![Len(votes)] =
              [id |-> Len(votes), poll_id |-> poll_id, vote_data |-> json_dumps(vd)]]

\* the row cast_vote inserts
insert_vote(poll_id, vd) ==
    Append(votes, [id |-> Len(votes) + 1, poll_id |-> poll_id,
                   vote_data |-> json_dumps(vd)])

\* a tally loop without the range test, indexing as Python does: a negative
\* index counts from the end
RECURSIVE tally_wrapping(_, _)
tally_wrapping(totals, votes_log) ==
    IF votes_log = <<>> THEN totals
    ELSE LET opt_idx == DictGet(Head(votes_log), "option_index")
             n == Len(totals)
             k == IF opt_idx = <<>> THEN 0
                  ELSE IF 0 <= opt_idx[1] /\ opt_idx[1] < n THEN opt_idx[1] + 1
                  ELSE IF -n <= opt_idx[1] /\ opt_idx[1] < 0 THEN n + opt_idx[1] + 1
                  ELSE 0
         IN tally_wrapping(IF k = 0 THEN totals
                           ELSE [totals EXCEPT ![k] = @ + 1],
                           Tail(votes_log))

\* the tally loop of list_polls: totals[k + 1] is Python's totals[k]
RECURSIVE tally(_, _)
tally(totals, votes_log) ==
    IF votes_log = <<>> THEN totals
    ELSE LET opt_idx == DictGet(Head(votes_log), "option_index")
         IN tally(IF /\ opt_idx # <<>>
                     /\ 0 <= opt_idx[1]
                     /\ opt_idx[1] < Len(totals)
                  THEN [totals EXCEPT ![opt_idx[1] + 1] = @ + 1]
                  ELSE totals,
                  Tail(votes_log))

\* one entry of list_polls
list_entry(row) ==
    LET poll == poll_dict(row)
        votes_log == votes_of(votes, poll.id)
    IN IF poll.poll_type = "single"
       THEN poll @@ [votes_log |-> votes_log,
                     totals |-> tally([k \in 1..Len(poll.options.choices) |-> 0],
                                      votes_log)]
       ELSE poll @@ [votes_log |-> votes_log]

\* SELECT * FROM polls ORDER BY created_at DESC, each with its votes
list_polls == [i \in DOMAIN polls |-> list_entry(polls[Len(polls) + 1 - i])]

----------------------------------------------------------------------------
(* The vote page *)

\* what st.multiselect can return: the choices picked, in the order picked
Selections(choices) ==
    UNION {{sel \in [1..n -> Range(choices)] :
                \A i, j \in 1..n : i # j => sel[i] # sel[j]} : n \in 0..Len(choices)}

\* a Python str, int or None as a response value: the type goes with the
\* value, for isinstance to test
Str(v) == <<"str", v>>

Int_(v) == <<"int", v>>

NoneValue == <<"None">>

\* the values the widget of a criterion type can return
widget_values(type) ==
    CASE type = "Yes/No" -> {Str("Yes"), Str("No")}
      [] type = "Scale (1-5)" -> {Int_(n) : n \in 1..5}
      [] type = "Text" -> {Str(""), Str("fine")}
      [] OTHER -> {}

\* responses[item] after the first k criteria: a later criterion with the
\* same label overwrites the earlier one
RECURSIVE item_responses(_, _)
item_responses(criteria, k) ==
    IF k = 0 THEN {<<>>}
    ELSE {(criteria[k].label :> v) @@ m :
              m \in item_responses(criteria, k - 1),
              v \in widget_values(criteria[k].type)}

\* every responses dict the matrix form can submit
Responses(options) ==
    [Range(options.items) -> item_responses(options.criteria, Len(options.criteria))]

\* render_vote_page up to its call of cast_vote: <<vote_data>> when the run
\* calls cast_vote, <<>> when it does not (closed poll, no "vote" parameter,
\* int() raising, a disabled button, a type neither branch handles)
page_call(pd, param, name, ranking, responses) ==
    IF pd.closed # 0 THEN <<>>
    ELSE IF param # <<>> /\ pd.poll_type = "single"
    THEN (IF int(param[1]) = <<>> THEN <<>>
          ELSE <<[option_index |-> int(param[1])[1] - 1]>>)
    ELSE IF pd.poll_type = "ranked"
    THEN (IF strip(name) # "" /\ Len(ranking) = Len(pd.options.choices)
          THEN <<[name |-> strip(name), ranking |-> ranking]>>
          ELSE <<>>)
    ELSE IF pd.poll_type = "matrix"
    THEN (IF strip(name) # ""
          THEN <<[name |-> strip(name), responses |-> responses]>>
          ELSE <<>>)
    ELSE <<>>

\* the query parameter "vote": absent, or one of VoteParams
ParamInputs == {<<>>} \cup {<<v>> : v \in VoteParams}

\* what a visitor can give the page of poll pd: the "vote" parameter of the
\* link on a single-choice page (which shows no form), the name and the
\* form's widgets on a ranked or matrix page (which ignore the parameter)
PageInputs(pd) ==
    IF pd.poll_type = "ranked"
    THEN {[param |-> <<>>, name |-> n, ranking |-> r, responses |-> <<>>] :
              n \in NameInputs, r \in Selections(pd.options.choices)}
    ELSE IF pd.poll_type = "matrix"
    THEN {[param |-> <<>>, name |-> n, ranking |-> <<>>, responses |-> r] :
              n \in NameInputs, r \in Responses(pd.options)}
    ELSE {[param |-> v, name |-> "", ranking |-> <<>>, responses |-> <<>>] :
              v \in ParamInputs}


----------------------------------------------------------------------------
(* The dashboard's form *)

\* [c.strip() for c in seq if c.strip()]
RECURSIVE strip_nonempty(_)
strip_nonempty(seq) ==
    IF seq = <<>> THEN <<>>
    ELSE (IF strip(Head(seq)) # "" THEN <<strip(Head(seq))>> ELSE <<>>)
         \o strip_nonempty(Tail(seq))

\* [c for c in criteria if c["label"].strip()]
RECURSIVE labelled(_)
labelled(criteria) ==
    IF criteria = <<>> THEN <<>>
    ELSE (IF strip(Head(criteria).label) # "" THEN <<Head(criteria)>> ELSE <<>>)
         \o labelled(Tail(criteria))

\* options_data of render_dashboard
options_data(label, choices, items, criteria) ==
    IF label \in {SingleChoiceLabel, RankedPreferenceLabel}
    THEN [choices |-> strip_nonempty(choices)]
    ELSE [items |-> strip_nonempty(items), criteria |-> labelled(criteria)]

\* the options a direct caller of create_poll passes
ApiOptions(poll_type) ==
    IF poll_type = "matrix"
    THEN {[items |-> <<"X">>, criteria |-> c] : c \in FormCriteria}
    ELSE {[choices |-> <<"A", "B">>]}

\* payloads a direct caller of cast_vote passes
ApiVoteData == {[option_index |-> 0], [name |-> "bob", ranking |-> <<"A", "A">>]}

----------------------------------------------------------------------------
(* The dashboard's results *)

\* a results tab whose display function raised KeyError
KeyError == [tab |-> "KeyError"]

\* one vote's ranking added to scores, from position i on: Python's position
\* i - 1 earns n - (i - 1) points; a label that is no key of scores raises
RECURSIVE add_ranking(_, _, _, _)
add_ranking(scores, ranking, i, n) ==
    IF i > Len(ranking) THEN scores
    ELSE IF ranking[i] \notin DOMAIN scores THEN KeyError
    ELSE add_ranking([scores EXCEPT ![ranking[i]] = @ + (n - (i - 1))],
                     ranking, i + 1, n)

\* the scores loop of display_ranked_results
RECURSIVE borda(_, _, _)
borda(scores, votes_log, n) ==
    IF votes_log = <<>> \/ scores = KeyError THEN scores
    ELSE IF "ranking" \notin DOMAIN Head(votes_log) THEN KeyError
    ELSE borda(add_ranking(scores, Head(votes_log).ranking, 1, n),
               Tail(votes_log), n)

\* the keys of {choice: 0 for choice in choices}, in insertion order
RECURSIVE dict_keys(_)
dict_keys(choices) ==
    IF choices = <<>> THEN <<>>
    ELSE LET front == dict_keys(SubSeq(choices, 1, Len(choices) - 1))
             last == choices[Len(choices)]
         IN IF last \in Range(front) THEN front ELSE Append(front, last)

\* a descending sort that puts an item before the items that score the same
RECURSIVE sorted_ties_reversed(_)
sorted_ties_reversed(items) ==
    IF items = <<>> THEN <<>>
    ELSE LET front == sorted_ties_reversed(SubSeq(items, 1, Len(items) - 1))
             x == items[Len(items)]
             k == Cardinality({j \in DOMAIN front : front[j][2] > x[2]})
         IN SubSeq(front, 1, k) \o <<x>> \o SubSeq(front, k + 1, Len(front))

\* sorted(items, key=score, reverse=True): descending, and stable, so an
\* item goes behind every item placed before it that scores as much or more
RECURSIVE sorted_by_score(_)
sorted_by_score(items) ==
    IF items = <<>> THEN <<>>
    ELSE LET front == sorted_by_score(SubSeq(items, 1, Len(items) - 1))
             x == items[Len(items)]
             k == Cardinality({j \in DOMAIN front : front[j][2] >= x[2]})
         IN SubSeq(front, 1, k) \o <<x>> \o SubSeq(front, k + 1, Len(front))

display_ranked_results(poll) ==
    LET choices == poll.options.choices
        scores == borda([c \in Range(choices) |-> 0], poll.votes_log, Len(choices))
    IN IF scores = KeyError THEN KeyError
       ELSE IF \E k \in DOMAIN poll.votes_log : "name" \notin DOMAIN poll.votes_log[k]
       THEN KeyError
       ELSE [tab |-> "ranked",
             scores |-> sorted_by_score([k \in DOMAIN dict_keys(choices) |->
                            <<dict_keys(choices)[k], scores[dict_keys(choices)[k]]>>])]

\* round(num / den) to an integer as the format specs .0f and .2f round:
\* to the nearest, a tie to the even one
round_half_even(num, den) ==
    LET q == num \div den
        r == num % den
    IN IF 2 * r < den THEN q
       ELSE IF 2 * r > den THEN q + 1
       ELSE IF q % 2 = 0 THEN q ELSE q + 1

\* [v["responses"].get(item, {}).get(label) for v in votes
\*      if v["responses"].get(item)]
RECURSIVE cell_responses(_, _, _)
cell_responses(votes_log, item, label) ==
    IF votes_log = <<>> THEN <<>>
    ELSE LET r == Head(votes_log).responses
             answers == IF item \in DOMAIN r THEN r[item] ELSE <<>>
         IN (IF answers = <<>> THEN <<>>
             ELSE <<IF label \in DOMAIN answers THEN answers[label] ELSE NoneValue>>)
            \o cell_responses(Tail(votes_log), item, label)

\* list.count
count(seq, v) == Cardinality({k \in DOMAIN seq : seq[k] = v})

\* isinstance(r, (int, float))
is_number(r) == r[1] \in {"int", "float"}

\* r and str(r).strip()
is_text(r) ==
    /\ r # NoneValue
    /\ r[1] = "str" => strip(r[2]) # ""
    /\ r[1] = "int" => r[2] # 0

\* a Yes/No cell that shows 0% where there is no answer
yes_no_cell_zero(responses) ==
    LET yes_count == count(responses, Str("Yes"))
        total == count(responses, Str("Yes")) + count(responses, Str("No"))
    IN IF total > 0
       THEN <<"% Yes", round_half_even(yes_count * 100, total)>>
       ELSE <<"% Yes", 0>>

\* f"{yes_count / total * 100:.0f}% Yes" if total > 0 else "N/A"
yes_no_cell(responses) ==
    LET yes_count == count(responses, Str("Yes"))
        total == count(responses, Str("Yes")) + count(responses, Str("No"))
    IN IF total > 0
       THEN <<"% Yes", round_half_even(yes_count * 100, total)>>
       ELSE <<"N/A">>

\* f"{avg_score:.2f} avg": the average in hundredths
scale_cell(responses) ==
    LET numeric_responses == SelectSeq(responses, is_number)
        total == SumSeq([k \in DOMAIN numeric_responses |-> numeric_responses[k][2]])
    IN IF numeric_responses # <<>>
       THEN <<"avg", round_half_even(total * 100, Len(numeric_responses))>>
       ELSE <<"avg", 0>>

\* f"{text_count} response(s)"
text_cell(responses) ==
    <<"response(s)", Len(SelectSeq(responses, is_text))>>


\* row of display_matrix_results for item after the first k criteria: a
\* later criterion with the same label overwrites the cell of an earlier one
RECURSIVE matrix_row(_, _, _, _)
matrix_row(criteria, k, votes_log, item) ==
    IF k = 0 THEN <<>>
    ELSE LET label == criteria[k].label
             type == criteria[k].type
             responses == cell_responses(votes_log, item, label)
             row == matrix_row(criteria, k - 1, votes_log, item)
         IN CASE type = "Yes/No" -> (label :> yes_no_cell(responses)) @@ row
              [] type = "Scale (1-5)" -> (label :> scale_cell(responses)) @@ row
              [] type = "Text" -> (label :> text_cell(responses)) @@ row
              [] OTHER -> row

\* summary_rows of display_matrix_results; KeyError where a vote has no
\* "responses" or no "name", or where there is no row to take "Topic" from
display_matrix_results(poll) ==
    LET items == poll.options.items
        criteria == poll.options.criteria
        votes_log == poll.votes_log
    IN IF \/ items = <<>>
          \/ \E k \in DOMAIN votes_log : "name" \notin DOMAIN votes_log[k]
          \/ /\ criteria # <<>>
             /\ \E k \in DOMAIN votes_log : "responses" \notin DOMAIN votes_log[k]
       THEN KeyError
       ELSE [tab |-> "matrix",
             rows |-> [i \in DOMAIN items |->
                          [Topic |-> items[i],
                           cells |-> matrix_row(criteria, Len(criteria), votes_log, items[i])]]]

\* the metrics of display_single_choice_results
display_single_choice_results(poll) ==
    [tab |-> "single", totals |-> poll.totals]

\* the results tab of one entry of the listing
results_tab(p) ==
    IF p.votes_log = <<>> THEN [tab |-> "No votes have been cast yet."]
    ELSE CASE p.poll_type = "single" -> display_single_choice_results(p)
           [] p.poll_type = "ranked" -> display_ranked_results(p)
           [] p.poll_type = "matrix" -> display_matrix_results(p)
           [] OTHER -> [tab |-> "empty"]

\* the results tabs of a dashboard run, in the order of the listing; the run
\* ends at the first tab that raises
RECURSIVE render(_)
render(entries) ==
    IF entries = <<>> THEN <<>>
    ELSE IF results_tab(Head(entries)) = KeyError THEN <<KeyError>>
    ELSE <<results_tab(Head(entries))>> \o render(Tail(entries))

----------------------------------------------------------------------------
(* State *)

Idle(s) == pc[s] = "idle"

\* out before any call of cast_vote has returned
NoCall == [poll_id |-> 0, record |-> "no call", vote_data |-> <<>>, ret |-> FALSE]

\* what out keeps of the record a call was given
record_of(pd) ==
    IF pd = None THEN "None" ELSE IF pd.closed = 0 THEN "open" ELSE "closed"

\* out once cast_vote(poll_id, vd, pd) has returned ret
returned(poll_id, vd, pd, ret) ==
    [poll_id |-> poll_id, record |-> record_of(pd), vote_data |-> vd, ret |-> ret]

\* a session's run is over: it keeps nothing
Finish(s) ==
    /\ pc' = [pc EXCEPT ![s] = "idle"]
    /\ cur' = [cur EXCEPT ![s] = 0]
    /\ poll_data' = [poll_data EXCEPT ![s] = None]
    /\ vote_data' = [vote_data EXCEPT ![s] = <<>>]

Init ==
    /\ polls = <<>>
    /\ votes = <<>>
    /\ pc = [s \in Sessions |-> "idle"]
    /\ cur = [s \in Sessions |-> 0]
    /\ poll_data = [s \in Sessions |-> None]
    /\ vote_data = [s \in Sessions |-> <<>>]
    /\ out = NoCall
    /\ shown = <<>>

----------------------------------------------------------------------------
(* Operations *)

\* create_poll called directly
CreatePoll(poll_type, question, options) ==
    /\ polls' = create_poll(new_poll_id, poll_type, question, options)
    /\ UNCHANGED <<votes, pc, cur, poll_data, vote_data, out, shown>>

\* the "Create & Post" button of the dashboard: create_poll, get_poll, post
CreateAndPost(label, question, choices, items, criteria) ==
    LET options == options_data(label, choices, items, criteria)
    IN /\ question # ""
       /\ DOMAIN options # {}
       /\ polls' = create_poll(new_poll_id, poll_type_slug(label), question, options)
       /\ UNCHANGED <<votes, pc, cur, poll_data, vote_data, out, shown>>

\* cast_vote with the test of poll_data["closed"] left out
cast_vote_ignoring_closed(poll_id, vd, pd) ==
    /\ pd # None
    /\ \/ pd.poll_type = "single"
       \/ ~name_taken(poll_id, vd)

\* cast_vote, lines 47-53: whether the call goes on to the INSERT
cast_vote_admits(poll_id, vd, pd) ==
    /\ pd # None
    /\ pd.closed = 0
    /\ \/ pd.poll_type = "single"
       \/ ~name_taken(poll_id, vd)

\* cast_vote(poll_id, vd, pd) up to its INSERT
CastVoteBegin(s, poll_id, vd, pd) ==
    /\ IF cast_vote_admits(poll_id, vd, pd)
       THEN /\ pc' = [pc EXCEPT ![s] = "insert"]
            /\ cur' = [cur EXCEPT ![s] = poll_id]
            /\ poll_data' = [poll_data EXCEPT ![s] = pd]
            /\ vote_data' = [vote_data EXCEPT ![s] = vd]
            /\ UNCHANGED out
       ELSE /\ out' = returned(poll_id, vd, pd, FALSE)
            /\ UNCHANGED <<pc, cur, poll_data, vote_data>>
    /\ UNCHANGED <<polls, votes, shown>>

\* a run of the script with ?poll=poll_id: get_poll, then render_vote_page
\* and the cast_vote it calls, up to the INSERT
VotePage(s, poll_id, param, name, ranking, responses) ==
    LET pd == get_poll(poll_id)
    IN /\ Idle(s)
       /\ pd # None
       /\ page_call(pd, param, name, ranking, responses) # <<>>
       /\ CastVoteBegin(s, poll_id,
                        page_call(pd, param, name, ranking, responses)[1], pd)

\* cast_vote called directly with the record get_poll returns
ApiCastVote(s, poll_id, vd) ==
    /\ Idle(s)
    /\ CastVoteBegin(s, poll_id, vd, get_poll(poll_id))

\* cast_vote, lines 54-60: the INSERT, and return True
CastVoteInsert(s) ==
    /\ pc[s] = "insert"
    /\ votes' = insert_vote(cur[s], vote_data[s])
    /\ out' = returned(cur[s], vote_data[s], poll_data[s], TRUE)
    /\ Finish(s)
    /\ UNCHANGED <<polls, shown>>

\* a run of the dashboard that shows the results of what is stored
Dashboard(s) ==
    /\ Idle(s)
    /\ shown' = render(list_polls)
    /\ UNCHANGED <<polls, votes, pc, cur, poll_data, vote_data, out>>

\* a run of the dashboard in which "End poll" of entry i was clicked. The
\* run reaches the button only if the results display above it does not
\* raise; the model offers the button for every open entry.
ClickEndPoll(s, i) ==
    /\ Idle(s)
    /\ i \in DOMAIN list_polls
    /\ list_polls[i].closed = 0
    /\ pc' = [pc EXCEPT ![s] = "end_poll"]
    /\ cur' = [cur EXCEPT ![s] = list_polls[i].id]
    /\ UNCHANGED <<polls, votes, poll_data, vote_data, out, shown>>

\* end_poll called directly, for a poll in any state or for no poll
CallEndPoll(s, poll_id) ==
    /\ Idle(s)
    /\ pc' = [pc EXCEPT ![s] = "end_poll"]
    /\ cur' = [cur EXCEPT ![s] = poll_id]
    /\ UNCHANGED <<polls, votes, poll_data, vote_data, out, shown>>

\* end_poll: its UPDATE
EndPoll(s) ==
    /\ pc[s] = "end_poll"
    /\ polls' = end_poll(cur[s])
    /\ Finish(s)
    /\ UNCHANGED <<votes, out, shown>>

\* the summary button shown for every poll without a summary, open or not
summary_offered_when_open(p) == p.summary \in {NULL, ""}

\* whether the dashboard shows "Generate Summary" for entry p of its listing
summary_offered(p) ==
    /\ p.closed # 0
    /\ p.summary \in {NULL, ""}

\* a run of the dashboard in which "Generate Summary" of entry i was clicked
ClickGenerateSummary(s, i) ==
    /\ Idle(s)
    /\ i \in DOMAIN list_polls
    /\ summary_offered(list_polls[i])
    /\ pc' = [pc EXCEPT ![s] = "update_summary"]
    /\ cur' = [cur EXCEPT ![s] = list_polls[i].id]
    /\ UNCHANGED <<polls, votes, poll_data, vote_data, out, shown>>

\* generate_summary has returned: update_summary stores its text
UpdateSummary(s, summary) ==
    /\ pc[s] = "update_summary"
    /\ polls' = update_summary(cur[s], summary)
    /\ Finish(s)
    /\ UNCHANGED <<votes, out, shown>>

----------------------------------------------------------------------------
(* Specifications *)

\* the ids a link or a caller can name: those of the polls there can be
PollIds == 1..MaxPolls

\* the steps of the sessions SS, with polls created directly with a type of
\* TT or through the dashboard with a label of LL, and at most maxVotes votes
NextFor(SS, TT, LL, maxVotes) ==
    \/ \E t \in TT, q \in Questions : \E o \in ApiOptions(t) :
            Len(polls) < MaxPolls /\ CreatePoll(t, q, o)
    \/ \E l \in LL, q \in Questions, c \in FormChoices,
          i \in FormItems, k \in FormCriteria :
            Len(polls) < MaxPolls /\ CreateAndPost(l, q, c, i, k)
    \/ \E s \in SS, id \in PollIds : get_poll(id) # None /\
        \E in \in PageInputs(get_poll(id)) :
            VotePage(s, id, in.param, in.name, in.ranking, in.responses)
    \/ \E s \in SS, id \in PollIds, vd \in ApiVoteData :
            ApiCastVote(s, id, vd)
    \/ \E s \in SS : Len(votes) < maxVotes /\ CastVoteInsert(s)
    \/ \E s \in SS, i \in PollIds : ClickEndPoll(s, i)
    \/ \E s \in SS : EndPoll(s)
    \/ \E s \in SS, i \in PollIds : ClickGenerateSummary(s, i)
    \/ \E s \in SS, text \in Summaries : UpdateSummary(s, text)

\* the program: concurrent sessions, every way of creating a poll
Next == NextFor(Sessions, ApiPollTypes, PollTypeLabels, MaxVotes)

Spec == Init /\ [][Next]_vars

\* one session: every run ends before the next begins
SeqNext == NextFor({"s1"}, ApiPollTypes, PollTypeLabels, SeqVotes)

SeqSpec == Init /\ [][SeqNext]_vars

\* one session, ranked polls only
RankedNext == NextFor({"s1"}, {"ranked"}, {RankedPreferenceLabel}, MaxVotes)

RankedSpec == Init /\ [][RankedNext]_vars

\* one session, single-choice polls only, and end_poll also called directly:
\* on an open poll, on a closed one, on an id no poll has
EndNext ==
    \/ NextFor({"s1"}, {"single"}, {SingleChoiceLabel}, MaxVotes)
    \/ \E id \in PollIds : CallEndPoll("s1", id)

EndSpec == Init /\ [][EndNext]_vars

\* the voters of DisplaySpec, in the order they voted
VoterNames == <<"ann", "bob", "cat", "dan">>

\* the polls DisplaySpec shows the results of: a ranked poll of three
\* choices, a matrix poll with a yes/no criterion, one with a scale
DisplayOptions(poll_type) ==
    IF poll_type = "ranked" THEN {[choices |-> <<"A", "B", "C">>]}
    ELSE {[items |-> <<"X">>, criteria |-> <<[label |-> "c1", type |-> t]>>] :
              t \in {"Yes/No", "Scale (1-5)"}}

\* what cast_vote can have stored for such a poll, less the name: the
\* rankings and the responses its page submits, responses without an answer
\* for the item, and on a scale an answer that is no number
DisplayPayloads(poll_type, options) ==
    IF poll_type = "ranked"
    THEN {[ranking |-> r] :
              r \in {sel \in Selections(options.choices) :
                         Len(sel) = Len(options.choices)}}
    ELSE {[responses |-> r] :
              r \in Responses(options) \cup {<<>>} \cup
                    (IF options.criteria[1].type = "Scale (1-5)"
                     THEN {[i \in Range(options.items) |->
                               (options.criteria[1].label :> NoneValue)]}
                     ELSE {})}

\* the store holds one open poll and the votes of up to MaxBallots voters
DisplayInit ==
    /\ \E t \in {"ranked", "matrix"} : \E o \in DisplayOptions(t) :
         \E n \in 0..MaxBallots : \E l \in [1..n -> DisplayPayloads(t, o)] :
            /\ polls = <<[id |-> 1, poll_type |-> t, question |-> "Q",
                          options |-> json_dumps(o), closed |-> 0,
                          summary |-> NULL]>>
            /\ votes = [k \in 1..n |->
                          [id |-> k, poll_id |-> 1,
                           vote_data |-> json_dumps(("name" :> VoterNames[k]) @@ l[k])]]
    /\ pc = [s \in Sessions |-> "idle"]
    /\ cur = [s \in Sessions |-> 0]
    /\ poll_data = [s \in Sessions |-> None]
    /\ vote_data = [s \in Sessions |-> <<>>]
    /\ out = NoCall
    /\ shown = <<>>

\* the dashboard is opened on that store
DisplayNext == Dashboard("s1")

DisplaySpec == DisplayInit /\ [][DisplayNext]_vars

\* the dashboards alone: concurrent sessions that create, end and summarise.
\* The vote steps leave polls unchanged and no dashboard step reads votes,
\* so polls takes the same values here as under Spec.
LifeNext ==
    \/ \E t \in ApiPollTypes, q \in Questions : \E o \in ApiOptions(t) :
            Len(polls) < MaxPolls /\ CreatePoll(t, q, o)
    \/ \E l \in PollTypeLabels, q \in Questions, c \in FormChoices,
          i \in FormItems, k \in FormCriteria :
            Len(polls) < MaxPolls /\ CreateAndPost(l, q, c, i, k)
    \/ \E s \in Sessions, i \in PollIds : ClickEndPoll(s, i)
    \/ \E s \in Sessions : EndPoll(s)
    \/ \E s \in Sessions, i \in PollIds : ClickGenerateSummary(s, i)
    \/ \E s \in Sessions, text \in Summaries : UpdateSummary(s, text)

LifeSpec == Init /\ [][LifeNext]_vars

----------------------------------------------------------------------------
(* Properties *)

\* the stored votes of poll poll_id whose "name" entry is key (<<n>> for the
\* name n, <<>> for a payload without one)
votes_named(poll_id, key) ==
    {i \in DOMAIN votes :
        /\ votes[i].poll_id = poll_id
        /\ DictGet(json_loads(votes[i].vote_data), "name") = key}

\* the "name" entries of the stored votes and of the call that returned last
name_keys ==
    {DictGet(json_loads(votes[i].vote_data), "name") : i \in DOMAIN votes}
        \cup {DictGet(out.vote_data, "name")}

\* whether vd is a single-choice payload naming one of the poll's choices
in_range(vd, pd) ==
    /\ "option_index" \in DOMAIN vd
    /\ "choices" \in DOMAIN pd.options
    /\ 0 <= vd.option_index
    /\ vd.option_index < Len(pd.options.choices)

\* C1: cast_vote given a record whose closed flag is set returns False and
\* appends nothing, whatever the poll's type and the payload: no call that
\* was given such a record is on its way to the INSERT, and the call that
\* returned last, if it was given one, returned False.
C1_ClosedRecordRejected ==
    /\ \A s \in Sessions :
          pc[s] = "insert" => poll_data[s] # None /\ poll_data[s].closed = 0
    /\ out.record = "closed" => out.ret = FALSE

\* a payload that an open single poll would take has been refused on a
\* closed one, and the ledger of that poll is empty
C1_Witness ==
    /\ out.record = "closed"
    /\ out.ret = FALSE
    /\ get_poll(out.poll_id).poll_type = "single"
    /\ in_range(out.vote_data, get_poll(out.poll_id))
    /\ votes_of(votes, out.poll_id) = <<>>

\* the poll types of a ranked poll: as create_poll is given it directly, and
\* as the dashboard derives it from the label
RankedTypes == {"ranked", poll_type_slug(RankedPreferenceLabel)}

\* C2: on an open ranked poll, with one call of cast_vote after the other,
\* the first call under a name is admitted and a later call under the same
\* name is rejected: the ledger never holds two votes under one name, and
\* once a call given the open record has returned, admitted or rejected, the
\* ledger holds exactly one vote under its name.
C2_SecondVoteRejected ==
    \A i \in DOMAIN polls :
        polls[i].poll_type \in RankedTypes =>
            /\ \A key \in name_keys :
                  Cardinality(votes_named(polls[i].id, key)) <= 1
            /\ (out.poll_id = polls[i].id /\ out.record = "open") =>
                  Cardinality(votes_named(polls[i].id,
                                          DictGet(out.vote_data, "name"))) = 1

\* a second call under a name has returned False, and the ledger holds the
\* one vote of the first
C2_Witness ==
    /\ out.record = "open"
    /\ out.ret = FALSE
    /\ get_poll(out.poll_id).poll_type = "ranked"
    /\ "name" \in DOMAIN out.vote_data
    /\ Cardinality(votes_named(out.poll_id, <<out.vote_data.name>>)) = 1

\* C3: however the sessions' calls of cast_vote interleave, the ledger of a
\* ranked or matrix poll holds at most one vote under any one name.
C3_OneVotePerName ==
    \A i \in DOMAIN polls :
        polls[i].poll_type \in {"ranked", "matrix"} =>
            \A key \in name_keys \ {<<>>} :
                Cardinality(votes_named(polls[i].id, key)) <= 1

\* C4: a vote is appended only while the stored closed flag of its poll is
\* not set: once end_poll has committed, no row is added for the poll.
C4_NoVoteAfterEndPoll ==
    [][\A i \in DOMAIN votes' \ DOMAIN votes :
            get_poll(votes'[i].poll_id).closed = 0]_vars

\* the single-choice events among the votes list_polls attaches to an entry
single_events(votes_log) ==
    {k \in DOMAIN votes_log : "option_index" \in DOMAIN votes_log[k]}

\* C5: for every single poll list_polls reports, no count of the tally is
\* negative and the counts add up to the number of single-choice events
\* stored for the poll.
C5_TallyCountsEveryVote ==
    \A i \in DOMAIN list_polls :
        list_polls[i].poll_type = "single" =>
            /\ \A k \in DOMAIN list_polls[i].totals : list_polls[i].totals[k] >= 0
            /\ SumSeq(list_polls[i].totals)
                  = Cardinality(single_events(list_polls[i].votes_log))

\* C6: every stored single-choice event of a single poll names one of the
\* poll's choices: 0 <= option_index < len(choices).
C6_StoredIndexInRange ==
    \A i \in DOMAIN votes :
        LET vd == json_loads(votes[i].vote_data)
            pd == get_poll(votes[i].poll_id)
        IN (pd.poll_type = "single" /\ "option_index" \in DOMAIN vd) =>
              in_range(vd, pd)

\* C7: cast_vote never returns False for a payload naming one of the choices
\* of an open single-choice poll that the dashboard created.
C7_SingleChoiceNeverRejected ==
    ~ /\ out.record = "open"
      /\ out.ret = FALSE
      /\ get_poll(out.poll_id).poll_type = poll_type_slug(SingleChoiceLabel)
      /\ in_range(out.vote_data, get_poll(out.poll_id))

well_formed(options) ==
    /\ "choices" \in DOMAIN options => Len(options.choices) >= 2
    /\ "items" \in DOMAIN options => Len(options.items) >= 1
    /\ "criteria" \in DOMAIN options => Len(options.criteria) >= 1

\* C9: create_poll stores no poll with a malformed schema: every stored
\* single or ranked poll has two choices or more, every stored matrix poll
\* has an item and a criterion.
C9_StoredPollsWellFormed ==
    \A i \in DOMAIN polls : well_formed(json_loads(polls[i].options))

\* C10: the closed flag of a poll never goes back from set to not set: no
\* step of any operation removes the poll or clears its flag.
C10_ClosedIsMonotone ==
    [][\A i \in DOMAIN polls :
            polls[i].closed # 0 =>
                /\ i \in DOMAIN polls'
                /\ polls'[i].id = polls[i].id
                /\ polls'[i].closed # 0]_vars

\* a poll was closed, a call of cast_vote for it has returned since and a
\* summary has been stored for it, and it is closed still
C10_Witness ==
    \E i \in DOMAIN polls :
        /\ polls[i].closed # 0
        /\ polls[i].summary = "summary"
        /\ out.poll_id = polls[i].id
        /\ out.record = "closed"

\* C11: end_poll is idempotent: a call of end_poll on a poll that an earlier
\* call has closed leaves the polls table and the vote ledger exactly as
\* they were, and every call leaves the poll closed.
C11_EndPollIdempotent ==
    [][\A s \in Sessions :
          (pc[s] = "end_poll" /\ pc'[s] = "idle") =>
              /\ DOMAIN polls' = DOMAIN polls
              /\ \A i \in DOMAIN polls :
                    polls[i].id = cur[s] =>
                        /\ polls'[i].closed = 1
                        /\ polls[i].closed # 0 => polls' = polls
              /\ votes' = votes]_vars

\* a second call of end_poll is about to run its UPDATE on a poll that the
\* first call closed, with a vote in the poll's ledger
C11_Witness ==
    \E s \in Sessions :
        /\ pc[s] = "end_poll"
        /\ get_poll(cur[s]) # None
        /\ get_poll(cur[s]).closed = 1
        /\ votes_of(votes, cur[s]) # <<>>

\* C13: a call of cast_vote rejected because the poll does not exist, one
\* rejected because the poll is closed and one rejected because the voter
\* has voted return different results: two rejections in a row that have
\* different causes differ in what they return.
C13_RejectionsDistinguishable ==
    [][(/\ out' # out
        /\ out.record \in {"None", "closed", "open"}
        /\ out.ret = FALSE
        /\ out'.ret = FALSE
        /\ out'.record # out.record) => out'.ret # out.ret]_vars

\* what get_poll returns, and what the ledger holds, right after the step
\* in which create_poll(poll_type, question, options) returned pid
fresh_poll(pid, poll_type, question, options) ==
    /\ get_poll(pid)' = [id |-> pid, poll_type |-> poll_type,
                         question |-> question, options |-> options,
                         closed |-> 0, summary |-> NULL]
    /\ votes_of(votes', pid) = <<>>

\* C14: right after create_poll has returned an id, get_poll of that id
\* returns an open poll without summary that has the type, question and
\* options given, and the ledger holds no vote of that id.
C14_CreateThenGet ==
    [][\A pid \in PollIds : pid = new_poll_id =>
          /\ \A t \in ApiPollTypes, q \in Questions : \A o \in ApiOptions(t) :
                CreatePoll(t, q, o) => fresh_poll(pid, t, q, o)
          /\ \A l \in PollTypeLabels, q \in Questions, c \in FormChoices,
                i \in FormItems, k \in FormCriteria :
                CreateAndPost(l, q, c, i, k) =>
                    fresh_poll(pid, poll_type_slug(l), q, options_data(l, c, i, k))]_vars

\* create_poll has just returned: the poll it stored is the last one, and
\* nothing has happened since
C14_Witness ==
    /\ polls # <<>>
    /\ get_poll(Len(polls)).closed = 0
    /\ get_poll(Len(polls)).summary = NULL
    /\ get_poll(Len(polls)).options = [choices |-> <<"A", "B">>]
    /\ votes = <<>>
    /\ out = NoCall
    /\ \A s \in Sessions : Idle(s)

\* whether the sequence a is the beginning of the sequence b
is_prefix(a, b) ==
    /\ Len(a) <= Len(b)
    /\ \A i \in DOMAIN a : a[i] = b[i]

\* C16: the vote ledger is append-only: no step of any operation changes or
\* removes a stored vote, and the votes of each poll only grow at the end.
C16_LedgerAppendOnly ==
    [][/\ is_prefix(votes, votes')
       /\ \A id \in PollIds :
             is_prefix(votes_of(votes, id), votes_of(votes', id))]_vars

\* two votes are stored, and the poll has been ended and summarised since
C16_Witness ==
    /\ Len(votes) = 2
    /\ votes[1].poll_id = votes[2].poll_id
    /\ get_poll(votes[1].poll_id).closed = 1
    /\ get_poll(votes[1].poll_id).summary = "summary"

\* C17: the id, type, question and options of a poll never change after its
\* creation: every step leaves them as they are for every stored poll, and a
\* step of end_poll changes nothing of the poll but its closed flag.
C17_PollFieldsFixed ==
    [][/\ \A i \in DOMAIN polls :
             /\ i \in DOMAIN polls'
             /\ polls'[i].id = polls[i].id
             /\ polls'[i].poll_type = polls[i].poll_type
             /\ polls'[i].question = polls[i].question
             /\ polls'[i].options = polls[i].options
       /\ \A s \in Sessions, id \in PollIds :
             (pc[s] = "end_poll" /\ pc'[s] = "idle" /\ cur[s] = id
                /\ get_poll(id) # None) =>
                    get_poll(id)' = [get_poll(id) EXCEPT !.closed = 1]]_vars

\* a poll that has a vote was ended and summarised; cast_vote, end_poll and
\* update_summary have all acted on it
C17_Witness ==
    \E i \in DOMAIN polls :
        /\ polls[i].closed = 1
        /\ polls[i].summary = "summary"
        /\ polls[i].question = "Q"
        /\ votes_of(votes, polls[i].id) # <<>>

\* C18: a single-choice vote with an option_index out of range leaves the
\* tally of list_polls as it was, for every option of every poll: the step
\* that stores such a vote changes no totals.
C18_OutOfRangeKeepsTally ==
    [][\A s \in Sessions :
          (/\ pc[s] = "insert"
           /\ pc'[s] = "idle"
           /\ "option_index" \in DOMAIN vote_data[s]
           /\ ~in_range(vote_data[s], poll_data[s])) =>
              \A i \in DOMAIN list_polls :
                  "totals" \in DOMAIN list_polls[i] =>
                      list_polls'[i].totals = list_polls[i].totals]_vars

\* a vote with option_index 2 is stored for a poll with two choices, and
\* list_polls counts nothing for either choice
C18_Witness ==
    \E i \in DOMAIN list_polls :
        /\ list_polls[i].poll_type = "single"
        /\ list_polls[i].votes_log = <<[option_index |-> 2]>>
        /\ list_polls[i].totals = <<0, 0>>

\* whether ranking puts every one of the choices in exactly one place
is_permutation(ranking, choices) ==
    /\ Len(ranking) = Len(choices)
    /\ Range(ranking) = Range(choices)
    /\ \A i, j \in DOMAIN ranking : i # j => ranking[i] # ranking[j]

\* C19: every ranking stored for a ranked poll is a permutation of the
\* poll's choices: as long as the choices, each of them in one place.
C19_StoredRankingsArePermutations ==
    \A i \in DOMAIN votes :
        LET vd == json_loads(votes[i].vote_data)
            pd == get_poll(votes[i].poll_id)
        IN (pd.poll_type = "ranked" /\ "ranking" \in DOMAIN vd) =>
              is_permutation(vd.ranking, pd.options.choices)

\* the place of choice in seq, counted from 1
index_of(seq, choice) == CHOOSE i \in DOMAIN seq : seq[i] = choice

\* the points the ballots give choice: n - i for the 0-based place i
borda_points(choice, n, ballots) ==
    SumSeq([b \in DOMAIN ballots |-> n - (index_of(ballots[b].ranking, choice) - 1)])

\* whether result is the Borda count of the ballots on the choices: every
\* choice once, with its points, in descending order of score and equal
\* scores in the order of the choices
is_borda_count(result, choices, ballots) ==
    /\ Len(result) = Len(choices)
    /\ \A c \in Range(choices) : \E k \in DOMAIN result :
          result[k] = <<c, borda_points(c, Len(choices), ballots)>>
    /\ \A k \in 1..(Len(result) - 1) :
          \/ result[k][2] > result[k + 1][2]
          \/ /\ result[k][2] = result[k + 1][2]
             /\ index_of(choices, result[k][1]) < index_of(choices, result[k + 1][1])

\* whether the ballots are [B,A,C] and [C,B,A]
example_ballots(ballots) ==
    /\ Len(ballots) = 2
    /\ ballots[1].ranking = <<"B", "A", "C">>
    /\ ballots[2].ranking = <<"C", "B", "A">>

\* the ranked results shown are a Borda count, and those of the ballots
\* [B,A,C] and [C,B,A] on [A,B,C] are expected
borda_with_example(expected) ==
    \A i \in DOMAIN shown :
        list_polls[i].poll_type = "ranked" /\ list_polls[i].votes_log # <<>> =>
            /\ shown[i].tab = "ranked"
            /\ is_borda_count(shown[i].scores, list_polls[i].options.choices,
                              list_polls[i].votes_log)
            /\ example_ballots(list_polls[i].votes_log) => shown[i].scores = expected

\* C12: the ranked results are a Borda count. Every option appears once
\* with the sum, over the stored ballots, of n - i points for the 0-based
\* place i the ballot gives it; the options are in descending order of
\* score, equal scores in the order of the poll's options. The ballots
\* [B,A,C] and [C,B,A] on [A,B,C] give [B(5), C(4), A(3)].
C12_BordaCount ==
    borda_with_example(<< <<"B", 5>>, <<"C", 4>>, <<"A", 3>> >>)

\* C12 with the result it states for the two ballots: [B(5), A(3), C(3)]
C12_AsStated ==
    borda_with_example(<< <<"B", 5>>, <<"A", 3>>, <<"C", 3>> >>)

\* the dashboard shows the results of the ballots [B,A,C] and [C,B,A]
C12_Witness ==
    /\ shown # <<>>
    /\ shown[1].tab = "ranked"
    /\ example_ballots(list_polls[1].votes_log)
    /\ shown[1].scores[2] = <<"C", 4>>

\* the dashboard shows two options with equal scores, in the order of the
\* poll's options
C12_TieShown ==
    /\ shown # <<>>
    /\ shown[1].tab = "ranked"
    /\ shown[1].scores = << <<"A", 4>>, <<"B", 4>>, <<"C", 4>> >>

\* the votes of votes_log that answer item at all
answered(votes_log, item) ==
    {k \in DOMAIN votes_log :
        /\ item \in DOMAIN votes_log[k].responses
        /\ votes_log[k].responses[item] # <<>>}

\* the votes of votes_log whose answer to (item, label) is v
answered_with(votes_log, item, label, v) ==
    {k \in answered(votes_log, item) :
        /\ label \in DOMAIN votes_log[k].responses[item]
        /\ votes_log[k].responses[item][label] = v}

\* whether the cell shows the fraction yes / all as a whole percentage: the
\* integer nearest to 100 * yes / all
shows_fraction(cell, yes, all) ==
    /\ cell[1] = "% Yes"
    /\ 2 * (100 * yes - cell[2] * all) <= all
    /\ 2 * (cell[2] * all - 100 * yes) <= all

\* the entries of the listing that are matrix polls with the one criterion
\* of type type, and whose results are shown
shown_matrix(type) ==
    {i \in DOMAIN shown :
        /\ list_polls[i].poll_type = "matrix"
        /\ list_polls[i].options.criteria[1].type = type}

C15_NoData ==
    /\ shown # <<>>
    /\ shown[1].tab = "matrix"
    /\ list_polls[1].options.criteria[1].type = "Yes/No"
    /\ shown[1].rows[1].cells["c1"] = <<"N/A">>

\* C20: the scale cell of (item, criterion) shows no average when none of
\* the responses for the cell is a number.
C20_NoAverageWithoutNumbers ==
    \A i \in shown_matrix("Scale (1-5)") :
        shown[i].tab = "matrix" =>
            \A r \in DOMAIN shown[i].rows :
                LET votes_log == list_polls[i].votes_log
                    item == shown[i].rows[r].Topic
                    label == list_polls[i].options.criteria[1].label
                    numbers == {k \in answered(votes_log, item) :
                                   /\ label \in DOMAIN votes_log[k].responses[item]
                                   /\ votes_log[k].responses[item][label][1] = "int"}
                IN numbers = {} => shown[i].rows[r].cells[label][1] # "avg"

====
